---------------------------- MODULE Spec2Model ----------------------------
(***************************************************************************)
(* Model of the CVE history importer (management command                  *)
(* import_cve_history) of cve_records: the paginated fetch loop, the       *)
(* record normalizer, the deduplicating bulk insert inside one             *)
(* transaction per page, and the named checkpoint.                         *)
(*                                                                         *)
(* JSON / Python values are tagged records [t |-> <type>, v |-> <value>]   *)
(* so that values of different Python types can be compared.  A Python     *)
(* dict is a sequence of <<key, value>> pairs in insertion order.          *)
(***************************************************************************)
EXTENDS Integers, Sequences, FiniteSets, TLC

(***************************************************************************)
(* Bounds of the model.                                                    *)
(***************************************************************************)
MaxLen == 3        \* longest upstream feed (number of raw records)
MaxRuns == 2       \* number of times the command is run in one behaviour
MaxPageLimit == 2  \* largest --max-pages value tried (0 = unlimited)
MaxPageSize == 2   \* largest --page-size and --batch-size tried
MaxStartIndex == 1 \* largest explicit --start-index tried
MaxShapes == 2     \* longest feed of the record shapes the normalizer is tried on
MaxFairLen == 2    \* longest feed of the runs that are left to run to their end

(***************************************************************************)
(* Python values.                                                          *)
(***************************************************************************)
None == [t |-> "none", v |-> "None"]
S(x) == [t |-> "str", v |-> x]
N(n) == [t |-> "int", v |-> n]
D(pairs) == [t |-> "dict", v |-> pairs]
L(items) == [t |-> "list", v |-> items]
\* a parsed datetime (django.utils.dateparse.parse_datetime result)
DT(x) == [t |-> "datetime", v |-> x]
\* hashlib.sha1(...).hexdigest(): a str; the digest is kept as the text it
\* was computed from (SHA-1 idealised as collision free)
Sha1(text) == [t |-> "sha1", v |-> text]

IsNone(x) == x.t = "none"
IsDict(x) == x.t = "dict"
IsList(x) == x.t = "list"
IsInt(x) == x.t = "int"
IsStr(x) == x.t \in {"str", "sha1"}

\* Python truthiness: bool(x)
Truthy(x) ==
    CASE x.t = "none" -> FALSE
      [] x.t = "str" -> x.v # ""
      [] x.t = "int" -> x.v # 0
      [] x.t = "dict" -> x.v # << >>
      [] x.t = "list" -> x.v # << >>
      [] OTHER -> TRUE

\* a or b
Or(a, b) == IF Truthy(a) THEN a ELSE b

\* k in d
HasKey(d, k) == \E j \in 1..Len(d.v) : d.v[j][1] = k

\* d.get(k)
Get(d, k) ==
    IF HasKey(d, k)
    THEN d.v[CHOOSE j \in 1..Len(d.v) : d.v[j][1] = k][2]
    ELSE None

(***************************************************************************)
(* json.dumps(change, sort_keys=True): the keys of every mapping, at every *)
(* depth, are emitted in sorted order.  KeyRank is the rank of each key    *)
(* the model uses in Python's string order (upper case before lower case). *)
(***************************************************************************)
KeyRank(k) ==
    CASE k = "CVE_data_meta" -> 1
      [] k = "ID" -> 2
      [] k = "action" -> 3
      [] k = "change" -> 4
      [] k = "count" -> 5
      [] k = "created" -> 6
      [] k = "cve" -> 7
      [] k = "cveChangeId" -> 8
      [] k = "cveId" -> 9
      [] k = "date" -> 10
      [] k = "details" -> 11
      [] k = "eventName" -> 12
      [] k = "id" -> 13
      [] k = "name" -> 14
      [] k = "sourceIdentifier" -> 15
      [] k = "time" -> 16
      [] k = "total" -> 17
      [] k = "totalResults" -> 18
      [] k = "type" -> 19
      [] k = "vulnerabilities" -> 20
      [] OTHER -> 21

\* the pairs of a mapping in key order (selection of the smallest key first)
RECURSIVE SortPairs(_)
SortPairs(pairs) ==
    IF pairs = << >> THEN << >>
    ELSE LET m == CHOOSE j \in 1..Len(pairs) :
                    \A h \in 1..Len(pairs) : KeyRank(pairs[j][1]) <= KeyRank(pairs[h][1])
             rest == [h \in 1..(Len(pairs) - 1) |->
                        IF h < m THEN pairs[h] ELSE pairs[h + 1]]
         IN  <<pairs[m]>> \o SortPairs(rest)

\* JsonDumpsSorted without sort_keys: the keys stay in insertion order
JsonDumpsUnsorted(x) == x

RECURSIVE JsonDumpsSorted(_)
JsonDumpsSorted(x) ==
    CASE x.t = "dict" ->
           LET sp == SortPairs(x.v)
           IN  D([j \in 1..Len(sp) |-> <<sp[j][1], JsonDumpsSorted(sp[j][2])>>])
      [] x.t = "list" -> L([j \in 1..Len(x.v) |-> JsonDumpsSorted(x.v[j])])
      [] OTHER -> x


(***************************************************************************)
(* django.utils.dateparse.parse_datetime on the date texts the model uses. *)
(* "valid": parses; "invalid": well formed but no real date (ValueError);  *)
(* anything else is not well formed (None).                                *)
(***************************************************************************)
DateClass(s) ==
    CASE s = "2024-01-01T00:00:00.000" -> "valid"
      [] s = "2024-01-01T00:00:00" -> "valid"
      [] s = "2024-01-02T00:00:00" -> "valid"
      [] s = "2024-02-30T00:00:00" -> "invalid"
      [] OTHER -> "malformed"

\* the instant a valid text denotes
DateValue(s) ==
    CASE s = "2024-01-01T00:00:00.000" -> DT("2024-01-01T00:00:00")
      [] OTHER -> DT(s)

\* created_raw.split(".")[0]
BeforeDot(s) ==
    CASE s = "2024-01-01T00:00:00.000" -> "2024-01-01T00:00:00"
      [] s = "2024-01-02T00:00:00.5 UTC" -> "2024-01-02T00:00:00"
      [] s = "2024-02-30T00:00:00.5 UTC" -> "2024-02-30T00:00:00"
      [] OTHER -> s

Returned(val) == [kind |-> "ok", val |-> val, exc |-> ""]
Raised(exc) == [kind |-> "raise", val |-> None, exc |-> exc]

\* parse_datetime(x): TypeError when x is no str, ValueError when x is well
\* formed but invalid, None when x is not well formed
ParseDatetime(x) ==
    IF x.t # "str" THEN Raised("TypeError")
    ELSE CASE DateClass(x.v) = "valid" -> Returned(DateValue(x.v))
           [] DateClass(x.v) = "invalid" -> Raised("ValueError")
           [] OTHER -> Returned(None)

\* lines 164-173: created_dt
CreatedDt(change) ==
    LET created_raw == Or(Or(Get(change, "created"), Get(change, "date")),
                          Get(change, "time"))
    IN  IF ~Truthy(created_raw) THEN Returned(None)
        ELSE LET first == ParseDatetime(created_raw)
             IN  IF first.kind = "raise" THEN first
                 ELSE IF ~IsNone(first.val) THEN first
                 ELSE \* try removing fractional seconds; any exception -> None
                      LET second == ParseDatetime(S(BeforeDot(created_raw.v)))
                      IN  IF second.kind = "raise" THEN Returned(None)
                          ELSE second

find_cveId(rec) ==
    IF IsDict(Get(rec, "cve")) /\ Truthy(Get(Get(rec, "cve"), "id"))
    THEN Get(Get(rec, "cve"), "id")
    ELSE IF Truthy(Get(rec, "cveId")) THEN Get(rec, "cveId")
    ELSE LET c == Or(Get(rec, "cve"), D(<< >>))
             meta == IF IsDict(c) THEN Or(Get(c, "CVE_data_meta"), D(<< >>))
                     ELSE None
         IN  IF IsDict(c) /\ IsDict(meta) /\ Truthy(Get(meta, "ID"))
             THEN Get(meta, "ID")
             ELSE Or(Or(Get(rec, "id"), Get(rec, "name")), S("unknown"))

\* line 155: the change payload of a raw record
ChangeOf(rec) ==
    IF IsDict(rec) /\ Truthy(Get(rec, "change")) THEN Get(rec, "change") ELSE rec

\* lines 177-184: the cveChangeId of a change
ChangeIdOf(change) ==
    LET cveChangeId == Or(Or(Get(change, "cveChangeId"), Get(change, "cveChangeId")),
                          Get(change, "id"))
    IN  IF ~Truthy(cveChangeId) THEN Sha1(JsonDumpsSorted(change)) ELSE cveChangeId

NoObj ==
    [cveId |-> None, eventName |-> None, cveChangeId |-> None,
     sourceIdentifier |-> None, created |-> None, details |-> None]

Skip == [kind |-> "skip", exc |-> "", obj |-> NoObj]
Raise(exc) == [kind |-> "raise", exc |-> exc, obj |-> NoObj]
Obj(o) == [kind |-> "obj", exc |-> "", obj |-> o]

\* lines 155-195: one raw record to a CVEHistory instance, a skip, or the
\* exception the loop body lets escape
Normalize(rec) ==
    LET change == ChangeOf(rec)
    IN  IF ~IsDict(change) THEN Skip
        ELSE LET cveId == Or(Or(Get(change, "cveId"), Get(change, "cveId")),
                             find_cveId(change))
                 created == CreatedDt(change)
                 details == IF Get(change, "details").t \in {"list", "dict"}
                            THEN Get(change, "details") ELSE None
             IN  IF created.kind = "raise" THEN Raise(created.exc)
                 ELSE Obj([cveId |-> Or(cveId, S("unknown")),
                           eventName |-> Get(change, "eventName"),
                           cveChangeId |-> ChangeIdOf(change),
                           sourceIdentifier |-> Get(change, "sourceIdentifier"),
                           created |-> created.val,
                           details |-> details])

\* lines 152-195: the instances of a page, in order, non-mappings left out
RECURSIVE BuildObjs(_)
BuildObjs(recs) ==
    IF recs = << >> THEN << >>
    ELSE LET n == Normalize(Head(recs))
         IN  IF n.kind = "obj" THEN <<n.obj>> \o BuildObjs(Tail(recs))
             ELSE BuildObjs(Tail(recs))

\* the exception that ends the loop over a page: that of the first record
\* whose normalization raises, "" when none does
RECURSIVE PageException(_)
PageException(recs) ==
    IF recs = << >> THEN ""
    ELSE LET n == Normalize(Head(recs))
         IN  IF n.kind = "raise" THEN n.exc ELSE PageException(Tail(recs))

\* extract_records(payload)
extract_records(payload) ==
    LET known == <<"vulnerabilities", "cveHistory", "result", "results", "cve_history">>
        hits == {j \in 1..Len(known) :
                    HasKey(payload, known[j]) /\ IsList(Get(payload, known[j]))}
        lists == {j \in 1..Len(payload.v) : IsList(payload.v[j][2])}
    IN  IF hits # {}
        THEN Get(payload, known[CHOOSE j \in hits : \A h \in hits : j <= h]).v
        ELSE IF lists # {}
        THEN payload.v[CHOOSE j \in lists : \A h \in lists : j <= h][2].v
        ELSE << >>


(***************************************************************************)
(* The upstream feed: raw records the model draws feeds from.              *)
(***************************************************************************)
RecA ==
    D(<< <<"change", D(<< <<"cveId", S("CVE-2024-0001")>>,
                          <<"eventName", S("Added")>>,
                          <<"cveChangeId", S("abc123")>>,
                          <<"created", S("2024-01-01T00:00:00.000")>> >>)>> >>)
\* another change that carries the change id of RecA, payload not wrapped
RecADup ==
    D(<< <<"cveChangeId", S("abc123")>>,
         <<"cveId", S("CVE-2024-0001")>>,
         <<"eventName", S("Modified")>> >>)
\* none of the identifier fields
RecNoIds == D(<< <<"change", D(<< <<"eventName", S("Added")>> >>)>> >>)
\* not a mapping
RecScalar == S("junk")
\* created is not a string
RecBadCreated ==
    D(<< <<"change", D(<< <<"cveChangeId", S("def456")>>,
                          <<"created", N(5)>> >>)>> >>)

\* a change without change id, and the same change with its keys in another
\* order
PermA ==
    D(<< <<"change", D(<< <<"eventName", S("Added")>>,
                          <<"sourceIdentifier", S("nvd")>> >>)>> >>)
PermB ==
    D(<< <<"change", D(<< <<"sourceIdentifier", S("nvd")>>,
                          <<"eventName", S("Added")>> >>)>> >>)
\* the same for keys of a mapping inside the change (payloads not wrapped)
NestA ==
    D(<< <<"eventName", S("Modified")>>,
         <<"details", L(<< D(<< <<"action", S("Changed")>>,
                                <<"type", S("CVSS")>> >>) >>)>> >>)
NestB ==
    D(<< <<"details", L(<< D(<< <<"type", S("CVSS")>>,
                                <<"action", S("Changed")>> >>) >>)>>,
         <<"eventName", S("Modified")>> >>)
\* cve.id and a different cveId
RecBothIds ==
    D(<< <<"change", D(<< <<"cveChangeId", S("c-both")>>,
                          <<"cveId", S("CVE-2024-0002")>>,
                          <<"cve", D(<< <<"id", S("CVE-2024-0001")>> >>)>> >>)>> >>)
\* cve.CVE_data_meta.ID only
RecLegacy ==
    D(<< <<"change", D(<< <<"cveChangeId", S("c-legacy")>>,
                          <<"cve", D(<< <<"CVE_data_meta",
                                       D(<< <<"ID", S("CVE-2024-0003")>> >>)>> >>)>> >>)>> >>)
\* name only
RecName ==
    D(<< <<"change", D(<< <<"cveChangeId", S("c-name")>>,
                          <<"name", S("CVE-2024-0004")>> >>)>> >>)

\* two changes of different content without cveChangeId that carry the same
\* id
RecIdAdded ==
    D(<< <<"change", D(<< <<"id", S("CVE-2024-0005")>>,
                          <<"eventName", S("Added")>> >>)>> >>)
RecIdModified ==
    D(<< <<"change", D(<< <<"id", S("CVE-2024-0005")>>,
                          <<"eventName", S("Modified")>> >>)>> >>)

ShapeRecords == {PermA, PermB, NestA, NestB, RecBothIds, RecLegacy, RecName, RecBadCreated}

RawRecords == {RecA, RecADup, RecNoIds, RecScalar, RecBadCreated}

\* the sequences of at most n different elements of set
RECURSIVE SeqsUpTo(_, _)
SeqsUpTo(set, n) ==
    IF n = 0 THEN {<< >>}
    ELSE LET shorter == SeqsUpTo(set, n - 1)
             fresh(q) == {y \in set : \A j \in DOMAIN q : q[j] # y}
         IN  shorter \cup UNION {{Append(q, x) : x \in fresh(q)} : q \in shorter}

\* the feeds: every raw record occurs at most once in a feed (RecADup stands
\* for a change id that occurs twice)
Feeds == SeqsUpTo(RawRecords, MaxLen)

\* the feeds the normalizer is tried on
ShapeFeeds == SeqsUpTo(ShapeRecords, MaxShapes)

\* command line options of a behaviour's runs
PageSizes == 1..MaxPageSize
BatchSizes == 1..MaxPageSize
PageLimits == 0..MaxPageLimit
NotGiven == [given |-> FALSE, v |-> 0]
Given(n) == [given |-> TRUE, v |-> n]
StartIndexOptions == {NotGiven} \cup {Given(n) : n \in 0..MaxStartIndex}

Importers == {"importer1"}

VARIABLES
    upstream,       \* the feed: the sequence of raw records upstream holds
    upTotal,        \* the totalResults upstream reports (None: not reported)
    rows,           \* table CVEHistory: committed rows, in insertion order
    cp,             \* table ImportCheckpoint: the row of the checkpoint name
    opts,           \* --page-size, --batch-size, --max-pages
    runs,           \* runs of the command started so far
    runLog,         \* one record per ended run
    lowered,        \* a save has replaced the stored next_index by a smaller one
    pc,             \* where each importer is in handle()
    start_index,    \* options["start_index"] of the importer's run
    start,
    page_count,
    total_results,
    params,
    records,
    objs,
    i,              \* the chunk offset of the loop of line 201
    existing,
    created,
    tx,             \* rows inserted in the open transaction
    checkpoint,     \* the ImportCheckpoint instance in memory
    error,          \* the exception that ended the run
    start0,         \* the offset the run began at
    inserted,       \* rows the run has committed
    cpBefore,       \* the stored checkpoint when the current page was fetched
    rowsBefore,     \* the table when the current page was fetched
    rolledBack,     \* rows discarded by the rollback that ended the run
    faultChunk,     \* the sub-batch (1, 2, ...) in which the run's exception arose, else 0
    http,           \* the status upstream gave the request the importer sleeps after
    said            \* the line the run wrote when it went to sleep, stopped or failed

globals == <<upstream, upTotal, rows, cp, opts, runs, runLog, lowered>>
locals == <<pc, start_index, start, page_count, total_results, params, records,
            objs, i, existing, created, tx, checkpoint, error, start0, inserted,
            cpBefore, rowsBefore, rolledBack, faultChunk, http, said>>
vars == <<globals, locals>>

\* no HTTP status: no request is pending, or the request got no response
NoResponse == "none"

NoCheckpoint == [exists |-> FALSE, next_index |-> 0, total |-> None]
NoParams == [startIndex |-> 0, resultsPerPage |-> 0]

\* the state before the first run of the importers procs: a feed of feeds,
\* a total upstream reports (none, the number of its records, or one of
\* others), an empty database, the options of the runs, no process
BeginOf(procs, feeds, others) ==
    /\ upstream \in feeds
    /\ upTotal \in {None, N(Len(upstream))} \cup others
    /\ rows = << >>
    /\ cp = NoCheckpoint
    /\ opts \in {o \in [page_size : PageSizes, batch_size : BatchSizes, max_pages : PageLimits] :
                   o.batch_size <= o.page_size}
    /\ runs = 0
    /\ runLog = << >>
    /\ lowered = FALSE
    /\ pc = [p \in procs |-> "idle"]
    /\ start_index = [p \in procs |-> NotGiven]
    /\ start = [p \in procs |-> 0]
    /\ page_count = [p \in procs |-> 0]
    /\ total_results = [p \in procs |-> None]
    /\ params = [p \in procs |-> NoParams]
    /\ records = [p \in procs |-> << >>]
    /\ objs = [p \in procs |-> << >>]
    /\ i = [p \in procs |-> 0]
    /\ existing = [p \in procs |-> {}]
    /\ created = [p \in procs |-> 0]
    /\ tx = [p \in procs |-> << >>]
    /\ checkpoint = [p \in procs |-> NoCheckpoint]
    /\ error = [p \in procs |-> ""]
    /\ start0 = [p \in procs |-> 0]
    /\ inserted = [p \in procs |-> 0]
    /\ cpBefore = [p \in procs |-> NoCheckpoint]
    /\ rowsBefore = [p \in procs |-> << >>]
    /\ rolledBack = [p \in procs |-> 0]
    /\ faultChunk = [p \in procs |-> 0]
    /\ http = [p \in procs |-> NoResponse]
    /\ said = [p \in procs |-> ""]

\* the same with one importer
Begin(feeds, others) == BeginOf(Importers, feeds, others)

Init == Begin(Feeds, {})

(***************************************************************************)
(* Upstream: the response to GET ?startIndex=o&resultsPerPage=ps.          *)
(***************************************************************************)
Min(a, b) == IF a <= b THEN a ELSE b

Page(o, ps) ==
    IF o >= Len(upstream) THEN << >>
    ELSE SubSeq(upstream, o + 1, Min(o + ps, Len(upstream)))

Payload(o, ps) ==
    D((IF IsNone(upTotal) THEN << >> ELSE << <<"totalResults", upTotal>> >>)
      \o << <<"resultsPerPage", N(ps)>>,
            <<"startIndex", N(o)>>,
            <<"vulnerabilities", L(Page(o, ps))>> >>)

(***************************************************************************)
(* handle(): helpers.                                                      *)
(***************************************************************************)
\* lines 134-138
DetectTotal(tr, data) ==
    IF ~IsNone(tr) THEN tr
    ELSE IF IsInt(Get(data, "totalResults")) THEN Get(data, "totalResults")
    ELSE IF IsInt(Get(data, "total")) THEN Get(data, "total")
    ELSE IF IsInt(Get(data, "count")) THEN Get(data, "count")
    ELSE tr

\* lines 143-145
LateTotal(tr, data) ==
    IF IsNone(tr) THEN Or(Get(data, "totalResults"), Get(data, "total")) ELSE tr

\* MaxPagesReached that lets one page more through
MaxPagesReachedLate(p) == opts.max_pages # 0 /\ page_count[p] > opts.max_pages

\* line 109
MaxPagesReached(p) == opts.max_pages # 0 /\ page_count[p] >= opts.max_pages

\* line 202: chunk = objs[i : i + batch_size]
Chunk(p) == SubSeq(objs[p], i[p] + 1, Min(i[p] + opts.batch_size, Len(objs[p])))

\* the cveChangeIds of a sequence of rows
IdsOf(rws) == {rws[j].cveChangeId : j \in 1..Len(rws)}

\* the rows a query inside importer p's transaction sees
Visible(p) == rows \o tx[p]

\* ExistingIds without the query: nothing is taken to exist
ExistingIdsNone(p) == {}

\* lines 204-212: the existence query
ExistingIds(p) ==
    LET chunk_ids == {Chunk(p)[j].cveChangeId : j \in
                        {h \in 1..Len(Chunk(p)) : Truthy(Chunk(p)[h].cveChangeId)}}
    IN  IdsOf(Visible(p)) \cap chunk_ids

\* line 214
RECURSIVE NotIn(_, _)
NotIn(chunk, ids) ==
    IF chunk = << >> THEN << >>
    ELSE IF Head(chunk).cveChangeId \notin ids
         THEN <<Head(chunk)>> \o NotIn(Tail(chunk), ids)
         ELSE NotIn(Tail(chunk), ids)

\* ToCreate without the filter: the whole chunk is inserted
ToCreateAll(p) == Chunk(p)

ToCreate(p) == NotIn(Chunk(p), existing[p])

\* the unique constraint on cveChangeId (models.py line 14): an insert of
\* new_rows is refused when two of them, or one of them and a visible row,
\* carry the same cveChangeId
UniqueViolation(p, new_rows) ==
    \/ \E j, h \in 1..Len(new_rows) : j # h /\ new_rows[j].cveChangeId = new_rows[h].cveChangeId
    \/ IdsOf(new_rows) \cap IdsOf(Visible(p)) # {}

\* the cveChangeIds other importers have inserted in transactions still
\* open: an insert of one of them waits for the end of that transaction
Pending(p) == UNION {IdsOf(tx[q]) : q \in (DOMAIN tx) \ {p}}

\* the record of an ended run: whether it ended DONE, lost the save of a
\* committed page's checkpoint to a kill ("lost_save"), or halted otherwise;
\* the tables it left; and, of a run that did not just halt, the offset it
\* began at and the offset it had reached
LogEntry(p, outcome, rws, ckpt, off) ==
    LET how == IF outcome = "done" THEN "done"
               ELSE IF outcome = "killed" /\ pc[p] = "checkpointing" THEN "lost_save"
               ELSE "halted"
    IN  [outcome |-> how,
         start0 |-> IF how = "halted" THEN 0 ELSE start0[p],
         override |-> IF how = "halted" THEN FALSE ELSE start_index[p].given,
         offset |-> IF how = "halted" THEN 0 ELSE off,
         rows |-> rws, cp |-> ckpt]

\* the process has ended: its locals are gone
Forget(p) ==
    /\ page_count' = [page_count EXCEPT ![p] = 0]
    /\ total_results' = [total_results EXCEPT ![p] = None]
    /\ params' = [params EXCEPT ![p] = NoParams]
    /\ records' = [records EXCEPT ![p] = << >>]
    /\ objs' = [objs EXCEPT ![p] = << >>]
    /\ i' = [i EXCEPT ![p] = 0]
    /\ existing' = [existing EXCEPT ![p] = {}]
    /\ created' = [created EXCEPT ![p] = 0]
    /\ tx' = [tx EXCEPT ![p] = << >>]

Ended == {"idle", "done", "aborted", "killed"}
InTransaction == {"persisting", "inserting", "committing"}

(***************************************************************************)
(* handle(): the steps.                                                    *)
(***************************************************************************)
\* LoadCheckpoint that replaces the stored row by a new one
LoadCheckpointReset == [exists |-> TRUE, next_index |-> 0, total |-> None]

\* line 98: ImportCheckpoint.objects.get_or_create(name=cp_name)
LoadCheckpoint ==
    IF cp.exists THEN cp ELSE [exists |-> TRUE, next_index |-> 0, total |-> None]

\* ResolveStart that tests the option for truth, not for None
ResolveStartTruthy(si, loaded) ==
    IF si.given /\ si.v # 0 THEN si.v ELSE loaded.next_index

\* line 99: the offset the run begins at
ResolveStart(si, loaded) ==
    IF si.given THEN si.v
    ELSE IF Truthy(N(loaded.next_index)) THEN loaded.next_index ELSE 0

\* lines 90-106: a run of the command begins
StartRun(p) ==
    /\ pc[p] \in Ended
    /\ runs < MaxRuns
    /\ \E si \in StartIndexOptions :
         LET loaded == LoadCheckpoint
             begin == ResolveStart(si, loaded)
         IN  /\ cp' = loaded
             /\ checkpoint' = [checkpoint EXCEPT ![p] = loaded]
             /\ start_index' = [start_index EXCEPT ![p] = si]
             /\ start' = [start EXCEPT ![p] = begin]
             /\ start0' = [start0 EXCEPT ![p] = begin]
             /\ params' = [params EXCEPT ![p] =
                    [startIndex |-> begin, resultsPerPage |-> opts.page_size]]
    /\ runs' = runs + 1
    /\ pc' = [pc EXCEPT ![p] = "fetching"]
    /\ page_count' = [page_count EXCEPT ![p] = 0]
    /\ total_results' = [total_results EXCEPT ![p] = None]
    /\ error' = [error EXCEPT ![p] = ""]
    /\ inserted' = [inserted EXCEPT ![p] = 0]
    /\ cpBefore' = [cpBefore EXCEPT ![p] = cp']
    /\ rowsBefore' = [rowsBefore EXCEPT ![p] = rows]
    /\ rolledBack' = [rolledBack EXCEPT ![p] = 0]
    /\ faultChunk' = [faultChunk EXCEPT ![p] = 0]
    /\ http' = [http EXCEPT ![p] = NoResponse]
    /\ said' = [said EXCEPT ![p] = ""]
    /\ UNCHANGED <<lowered, upstream, upTotal, rows, opts, runLog, records, objs, i,
                   existing, created, tx>>

\* lines 109-111: the page limit is reached
MaxPagesStop(p) ==
    /\ pc[p] = "fetching"
    /\ MaxPagesReached(p)
    /\ pc' = [pc EXCEPT ![p] = "done"]
    /\ runLog' = Append(runLog, LogEntry(p, "done", rows, cp, start[p]))
    /\ said' = [said EXCEPT ![p] = "Reached max-pages limit, stopping."]
    /\ Forget(p)
    /\ UNCHANGED <<lowered, upstream, upTotal, rows, cp, opts, runs, start_index, start,
                   checkpoint, error, start0, inserted, cpBefore, rowsBefore,
                   rolledBack, faultChunk, http>>

\* make_session, line 25: the statuses the adapter retries by itself; when
\* its retries are used up it raises (urllib3 MaxRetryError, requests
\* RetryError) instead of returning the response
status_forcelist == {"429", "500", "502", "503", "504"}

\* what handle() does with a request that got status (NoResponse: none at
\* all): lines 118-123 for a 429 response it is handed, lines 124-129 for an
\* exception of session.get or raise_for_status
Reaction(status) ==
    IF status = "429" /\ status \notin status_forcelist
    THEN [sleep |-> "sleep60", line |-> "Rate limited (429)."]
    ELSE [sleep |-> "sleep5", line |-> "Request failed."]

\* FetchFails that moves on to the next page
FetchFailsSkipsPage(p, status) ==
    /\ pc[p] = "fetching"
    /\ ~MaxPagesReached(p)
    /\ params' = [params EXCEPT ![p] =
           [startIndex |-> start[p], resultsPerPage |-> opts.page_size]]
    /\ start' = [start EXCEPT ![p] = start[p] + opts.page_size]
    /\ pc' = [pc EXCEPT ![p] = Reaction(status).sleep]
    /\ said' = [said EXCEPT ![p] = Reaction(status).line]
    /\ http' = [http EXCEPT ![p] = status]
    /\ UNCHANGED <<globals, start_index, page_count, total_results, records,
                   objs, i, existing, created, tx, checkpoint, error, start0,
                   inserted, cpBefore, rowsBefore, rolledBack, faultChunk>>

\* a request that does not yield a page: the request is sent with the
\* current offset, upstream answers every attempt with status (or not at
\* all), and the importer sleeps before it continues the loop
FetchFails(p, status) ==
    /\ pc[p] = "fetching"
    /\ ~MaxPagesReached(p)
    /\ params' = [params EXCEPT ![p] =
           [startIndex |-> start[p], resultsPerPage |-> opts.page_size]]
    /\ pc' = [pc EXCEPT ![p] = Reaction(status).sleep]
    /\ said' = [said EXCEPT ![p] = Reaction(status).line]
    /\ http' = [http EXCEPT ![p] = status]
    /\ UNCHANGED <<globals, start_index, start, page_count, total_results, records,
                   objs, i, existing, created, tx, checkpoint, error, start0,
                   inserted, cpBefore, rowsBefore, rolledBack, faultChunk>>

\* upstream answers HTTP 429 to the request and to each retry of the adapter
FetchRateLimited(p) == FetchFails(p, "429")

\* upstream answers another error status: one the adapter retries until it
\* gives up, or one that raise_for_status() (line 124) raises for
FetchHttpError(p) == \E status \in {"404", "500"} : FetchFails(p, status)

\* line 117: session.get raises (connection failure, timeout)
FetchConnectionError(p) == FetchFails(p, NoResponse)

\* lines 122-123, 128-129: the sleep ends, continue
Wake(p) ==
    /\ pc[p] \in {"sleep60", "sleep5"}
    /\ pc' = [pc EXCEPT ![p] = "fetching"]
    /\ http' = [http EXCEPT ![p] = NoResponse]
    /\ said' = [said EXCEPT ![p] = ""]
    /\ UNCHANGED <<globals, start_index, start, page_count, total_results, params,
                   records, objs, i, existing, created, tx, checkpoint, error,
                   start0, inserted, cpBefore, rowsBefore, rolledBack, faultChunk>>

\* Advanced with the offset advanced by the rows inserted, not the records fetched
AdvancedByCreated(p) ==
    [exists |-> TRUE,
     next_index |-> start[p] + created[p],
     total |-> IF IsInt(total_results[p]) THEN total_results[p] ELSE checkpoint[p].total]

\* Advanced with the offset advanced by the records normalized, not the records fetched
AdvancedByObjs(p) ==
    [exists |-> TRUE,
     next_index |-> start[p] + Len(objs[p]),
     total |-> IF IsInt(total_results[p]) THEN total_results[p] ELSE checkpoint[p].total]

\* lines 226-229: the checkpoint instance after the page
Advanced(p) ==
    [exists |-> TRUE,
     next_index |-> start[p] + Len(records[p]),
     total |-> IF IsInt(total_results[p]) THEN total_results[p] ELSE checkpoint[p].total]

\* line 236
TotalReached(p) ==
    IsInt(total_results[p]) /\ start[p] + Len(records[p]) >= total_results[p].v

\* lines 221-224: what the run writes before the exception leaves handle()
FailureLine(exc) ==
    IF exc \in {"DatabaseError", "IntegrityError"} THEN "DB insert failed." ELSE ""

\* Abort with the checkpoint of the page saved before the exception is raised again
AbortAdvancing(p, exc) ==
    /\ pc' = [pc EXCEPT ![p] = "aborted"]
    /\ error' = [error EXCEPT ![p] = exc]
    /\ said' = [said EXCEPT ![p] = FailureLine(exc)]
    /\ rolledBack' = [rolledBack EXCEPT ![p] = Len(tx[p])]
    /\ faultChunk' = [faultChunk EXCEPT ![p] =
           IF pc[p] \in {"persisting", "inserting"} THEN (i[p] \div opts.batch_size) + 1 ELSE 0]
    /\ cp' = Advanced(p)
    /\ runLog' = Append(runLog, LogEntry(p, "aborted", rows, Advanced(p), start[p]))
    /\ Forget(p)
    /\ UNCHANGED <<lowered, upstream, upTotal, rows, opts, runs, start_index, start,
                   checkpoint, start0, inserted, cpBefore, rowsBefore, http>>

\* Abort without the atomic block: the rows inserted so far stay
AbortKeepingRows(p, exc) ==
    /\ pc' = [pc EXCEPT ![p] = "aborted"]
    /\ error' = [error EXCEPT ![p] = exc]
    /\ said' = [said EXCEPT ![p] = FailureLine(exc)]
    /\ rolledBack' = [rolledBack EXCEPT ![p] = 0]
    /\ faultChunk' = [faultChunk EXCEPT ![p] =
           IF pc[p] \in {"persisting", "inserting"} THEN (i[p] \div opts.batch_size) + 1 ELSE 0]
    /\ rows' = rows \o tx[p]
    /\ runLog' = Append(runLog, LogEntry(p, "aborted", rows \o tx[p], cp, start[p]))
    /\ Forget(p)
    /\ UNCHANGED <<lowered, upstream, upTotal, cp, opts, runs, start_index, start,
                   checkpoint, start0, inserted, cpBefore, rowsBefore, http>>

\* an exception leaves handle(): the run ends
Abort(p, exc) ==
    /\ pc' = [pc EXCEPT ![p] = "aborted"]
    /\ error' = [error EXCEPT ![p] = exc]
    /\ said' = [said EXCEPT ![p] = FailureLine(exc)]
    /\ rolledBack' = [rolledBack EXCEPT ![p] = Len(tx[p])]
    /\ faultChunk' = [faultChunk EXCEPT ![p] =
           IF pc[p] \in {"persisting", "inserting"} THEN (i[p] \div opts.batch_size) + 1 ELSE 0]
    /\ runLog' = Append(runLog, LogEntry(p, "aborted", rows, cp, start[p]))
    /\ Forget(p)
    /\ UNCHANGED <<lowered, upstream, upTotal, rows, cp, opts, runs, start_index, start,
                   checkpoint, start0, inserted, cpBefore, rowsBefore, http>>

\* line 131: the body of a 200 response is not JSON: resp.json() raises
FetchBadJson(p) ==
    /\ pc[p] = "fetching"
    /\ ~MaxPagesReached(p)
    /\ Abort(p, "JSONDecodeError")

\* line 136: the body is JSON but not an object: data.get raises
FetchNonObject(p) ==
    /\ pc[p] = "fetching"
    /\ ~MaxPagesReached(p)
    /\ Abort(p, "AttributeError")

\* lines 131-145 on the response to the request at the current offset
Data(p) == Payload(start[p], opts.page_size)
FetchedRecords(p) == extract_records(Data(p))
FetchedTotal(p) == LateTotal(DetectTotal(total_results[p], Data(p)), Data(p))

\* lines 117-149: a 200 response whose page is empty
FetchEmpty(p) ==
    /\ pc[p] = "fetching"
    /\ ~MaxPagesReached(p)
    /\ FetchedRecords(p) = << >>
    /\ pc' = [pc EXCEPT ![p] = "done"]
    /\ runLog' = Append(runLog, LogEntry(p, "done", rows, cp, start[p]))
    /\ said' = [said EXCEPT ![p] = "No records found. Stopping."]
    /\ Forget(p)
    /\ UNCHANGED <<lowered, upstream, upTotal, rows, cp, opts, runs, start_index, start,
                   checkpoint, error, start0, inserted, cpBefore, rowsBefore,
                   rolledBack, faultChunk, http>>

\* lines 117-195: a 200 response with a page on which the normalization of
\* a record raises
FetchMalformed(p) ==
    /\ pc[p] = "fetching"
    /\ ~MaxPagesReached(p)
    /\ FetchedRecords(p) # << >>
    /\ PageException(FetchedRecords(p)) # ""
    /\ Abort(p, PageException(FetchedRecords(p)))

\* lines 117-200: a 200 response with a page that normalizes; the
\* transaction of the page begins
FetchPage(p) ==
    /\ pc[p] = "fetching"
    /\ ~MaxPagesReached(p)
    /\ FetchedRecords(p) # << >>
    /\ PageException(FetchedRecords(p)) = ""
    /\ params' = [params EXCEPT ![p] =
           [startIndex |-> start[p], resultsPerPage |-> opts.page_size]]
    /\ total_results' = [total_results EXCEPT ![p] = FetchedTotal(p)]
    /\ records' = [records EXCEPT ![p] = FetchedRecords(p)]
    /\ objs' = [objs EXCEPT ![p] = BuildObjs(FetchedRecords(p))]
    /\ created' = [created EXCEPT ![p] = 0]
    /\ i' = [i EXCEPT ![p] = 0]
    /\ existing' = [existing EXCEPT ![p] = {}]
    /\ tx' = [tx EXCEPT ![p] = << >>]
    /\ cpBefore' = [cpBefore EXCEPT ![p] = cp]
    /\ rowsBefore' = [rowsBefore EXCEPT ![p] = rows]
    /\ pc' = [pc EXCEPT ![p] =
           IF BuildObjs(FetchedRecords(p)) = << >> THEN "committing" ELSE "persisting"]
    /\ UNCHANGED <<globals, start_index, start, page_count, checkpoint, error,
                   start0, inserted, rolledBack, faultChunk, http, said>>

\* lines 202-212: the existence query of the chunk at offset i
ChunkQuery(p) ==
    /\ pc[p] = "persisting"
    /\ existing' = [existing EXCEPT ![p] = ExistingIds(p)]
    /\ pc' = [pc EXCEPT ![p] = "inserting"]
    /\ UNCHANGED <<globals, start_index, start, page_count, total_results, params,
                   records, objs, i, created, tx, checkpoint, error, start0,
                   inserted, cpBefore, rowsBefore, rolledBack, faultChunk, http, said>>

\* lines 214-217: bulk_create of the chunk's new rows
ChunkInsert(p) ==
    /\ pc[p] = "inserting"
    /\ ~UniqueViolation(p, ToCreate(p))
    /\ IdsOf(ToCreate(p)) \cap Pending(p) = {}
    /\ tx' = [tx EXCEPT ![p] = tx[p] \o ToCreate(p)]
    /\ created' = [created EXCEPT ![p] = created[p] + Len(ToCreate(p))]
    /\ i' = [i EXCEPT ![p] = i[p] + opts.batch_size]
    /\ existing' = [existing EXCEPT ![p] = {}]
    /\ pc' = [pc EXCEPT ![p] =
           IF i[p] + opts.batch_size >= Len(objs[p]) THEN "committing" ELSE "persisting"]
    /\ UNCHANGED <<globals, start_index, start, page_count, total_results, params,
                   records, objs, checkpoint, error, start0, inserted, cpBefore,
                   rowsBefore, rolledBack, faultChunk, http, said>>

\* lines 216, 221-224: bulk_create violates the unique constraint; the
\* transaction is rolled back and the exception is raised again
ChunkInsertRefused(p) ==
    /\ pc[p] = "inserting"
    /\ UniqueViolation(p, ToCreate(p))
    /\ Abort(p, "IntegrityError")

\* Commit that loses the rows of the transaction
CommitLost(p) ==
    /\ pc[p] = "committing"
    /\ rows' = rows
    /\ inserted' = [inserted EXCEPT ![p] = inserted[p] + Len(tx[p])]
    /\ tx' = [tx EXCEPT ![p] = << >>]
    /\ pc' = [pc EXCEPT ![p] = "checkpointing"]
    /\ UNCHANGED <<lowered, upstream, upTotal, cp, opts, runs, runLog, start_index, start,
                   page_count, total_results, params, records, objs, i, existing,
                   created, checkpoint, error, start0, cpBefore, rowsBefore,
                   rolledBack, faultChunk, http, said>>

\* line 200: the atomic block is left, the transaction commits
Commit(p) ==
    /\ pc[p] = "committing"
    /\ rows' = rows \o tx[p]
    /\ inserted' = [inserted EXCEPT ![p] = inserted[p] + Len(tx[p])]
    /\ tx' = [tx EXCEPT ![p] = << >>]
    /\ pc' = [pc EXCEPT ![p] = "checkpointing"]
    /\ UNCHANGED <<lowered, upstream, upTotal, cp, opts, runs, runLog, start_index, start,
                   page_count, total_results, params, records, objs, i, existing,
                   created, checkpoint, error, start0, cpBefore, rowsBefore,
                   rolledBack, faultChunk, http, said>>

\* lines 221-224: the storage layer fails inside the atomic block; the
\* transaction is rolled back and the exception is raised again
PersistFault(p) ==
    /\ pc[p] \in InTransaction
    /\ Abort(p, "DatabaseError")

\* lines 226-241: the checkpoint is advanced and saved, the page is counted
SaveCheckpoint(p) ==
    /\ pc[p] = "checkpointing"
    /\ start' = [start EXCEPT ![p] = start[p] + Len(records[p])]
    /\ checkpoint' = [checkpoint EXCEPT ![p] = Advanced(p)]
    /\ cp' = Advanced(p)
    /\ lowered' = (lowered \/ Advanced(p).next_index < cp.next_index)
    /\ pc' = [pc EXCEPT ![p] = IF TotalReached(p) THEN "done" ELSE "fetching"]
    /\ page_count' = [page_count EXCEPT ![p] =
           IF TotalReached(p) THEN 0 ELSE page_count[p] + 1]
    /\ total_results' = [total_results EXCEPT ![p] =
           IF TotalReached(p) THEN None ELSE total_results[p]]
    /\ params' = [params EXCEPT ![p] = IF TotalReached(p) THEN NoParams ELSE params[p]]
    /\ runLog' = IF TotalReached(p)
                 THEN Append(runLog, LogEntry(p, "done", rows, Advanced(p), start[p] + Len(records[p])))
                 ELSE runLog
    /\ records' = [records EXCEPT ![p] = << >>]
    /\ objs' = [objs EXCEPT ![p] = << >>]
    /\ i' = [i EXCEPT ![p] = 0]
    /\ created' = [created EXCEPT ![p] = 0]
    /\ said' = [said EXCEPT ![p] = IF TotalReached(p) THEN "All records imported." ELSE ""]
    /\ UNCHANGED <<upstream, upTotal, rows, opts, runs, start_index, existing, tx,
                   error, start0, inserted, cpBefore, rowsBefore, rolledBack,
                   faultChunk, http>>

\* the process is terminated from outside: an open transaction is never
\* committed and nothing of the process is left
Kill(p) ==
    /\ pc[p] \notin Ended
    /\ pc' = [pc EXCEPT ![p] = "killed"]
    /\ runLog' = Append(runLog, LogEntry(p, "killed", rows, cp, start[p]))
    /\ Forget(p)
    /\ start' = [start EXCEPT ![p] = 0]
    /\ checkpoint' = [checkpoint EXCEPT ![p] = NoCheckpoint]
    /\ error' = [error EXCEPT ![p] = ""]
    /\ inserted' = [inserted EXCEPT ![p] = 0]
    /\ cpBefore' = [cpBefore EXCEPT ![p] = NoCheckpoint]
    /\ rowsBefore' = [rowsBefore EXCEPT ![p] = << >>]
    /\ rolledBack' = [rolledBack EXCEPT ![p] = 0]
    /\ faultChunk' = [faultChunk EXCEPT ![p] = 0]
    /\ http' = [http EXCEPT ![p] = NoResponse]
    /\ said' = [said EXCEPT ![p] = ""]
    /\ UNCHANGED <<lowered, upstream, upTotal, rows, cp, opts, runs, start_index, start0>>

Next ==
    \E p \in Importers :
        \/ StartRun(p)
        \/ MaxPagesStop(p)
        \/ FetchRateLimited(p)
        \/ FetchHttpError(p)
        \/ FetchConnectionError(p)
        \/ Wake(p)
        \/ FetchBadJson(p)
        \/ FetchNonObject(p)
        \/ FetchEmpty(p)
        \/ FetchMalformed(p)
        \/ FetchPage(p)
        \/ ChunkQuery(p)
        \/ ChunkInsert(p)
        \/ ChunkInsertRefused(p)
        \/ Commit(p)
        \/ PersistFault(p)
        \/ SaveCheckpoint(p)
        \/ Kill(p)

Spec == Init /\ [][Next]_vars

\* upstream reports another total from now on (the number of its records,
\* or one more), while no importer is between the response to a request
\* and the save of that page's checkpoint
UpstreamTotalChanges ==
    /\ \A p \in Importers : pc[p] \notin InTransaction \cup {"checkpointing"}
    /\ \E p \in Importers : pc[p] \notin Ended
    /\ upTotal' \in {N(Len(upstream)), N(Len(upstream) + 1)} \ {upTotal}
    /\ UNCHANGED <<upstream, rows, cp, opts, runs, runLog, lowered, locals>>

\* the importer over a feed whose reported total changes between pages
DriftFeeds == SeqsUpTo({RecA, RecADup, RecBadCreated}, MaxLen)
DriftInit == Begin(DriftFeeds, {})
DriftNext == Next \/ UpstreamTotalChanges
DriftSpec == DriftInit /\ [][DriftNext]_vars

\* the importer left to run: no kill, no fault of the storage layer, every
\* 200 response a JSON object, no change id twice in the feed; a total that
\* is absent, exact, no integer, too small or too large.
FairFeeds == SeqsUpTo({RecA, RecNoIds, RecScalar, RecBadCreated}, MaxFairLen)
FairInit == Begin(FairFeeds, {S("many"), N(1), N(MaxFairLen + 1)})
FairNext ==
    \E p \in Importers :
        \/ StartRun(p)
        \/ MaxPagesStop(p)
        \/ FetchRateLimited(p)
        \/ FetchHttpError(p)
        \/ FetchConnectionError(p)
        \/ Wake(p)
        \/ FetchEmpty(p)
        \/ FetchMalformed(p)
        \/ FetchPage(p)
        \/ ChunkQuery(p)
        \/ ChunkInsert(p)
        \/ Commit(p)
        \/ SaveCheckpoint(p)
\* the steps of the loop that wait for nothing outside the process
Continues(p) ==
    \/ MaxPagesStop(p)
    \/ Wake(p)
    \/ ChunkQuery(p)
    \/ ChunkInsert(p)
    \/ Commit(p)
    \/ SaveCheckpoint(p)

\* when a 200 response can arrive: whenever the importer is at the top of
\* the loop below the page limit.  No step of the importer by itself: the
\* arrival is taken together with what handle() does with the response
ResponseArrives(p) ==
    /\ pc[p] = "fetching"
    /\ ~MaxPagesReached(p)
    /\ pc' = [pc EXCEPT ![p] = "responded"]
    /\ UNCHANGED <<globals, start_index, start, page_count, total_results, params,
                   records, objs, i, existing, created, tx, checkpoint, error,
                   start0, inserted, cpBefore, rowsBefore, rolledBack, faultChunk,
                   http, said>>

\* the request of line 117 gets a 200 response: the importer leaves the top
\* of the loop by FetchEmpty, FetchMalformed or FetchPage
Responded(p) ==
    \/ ResponseArrives(p)
    \/ FetchEmpty(p)
    \/ FetchMalformed(p)
    \/ FetchPage(p)

\* the process runs on, and of the requests of an importer that keeps
\* sending them, one gets a 200 response
Fairness ==
    /\ WF_vars(\E p \in Importers : Continues(p))
    /\ SF_vars(\E p \in Importers : Responded(p))
FairSpec == FairInit /\ [][FairNext]_vars /\ Fairness

\* the importer over feeds of changes with and without cveChangeId
IdFeeds == SeqsUpTo({RecA, RecNoIds, RecIdAdded, RecIdModified, RecBadCreated}, MaxShapes)
IdInit == Begin(IdFeeds, {})
IdSpec == IdInit /\ [][Next]_vars

\* the importer over the feeds of record shapes
ShapeInit == Begin(ShapeFeeds, {})
ShapeSpec == ShapeInit /\ [][Next]_vars

\* two importers run the command against the same checkpoint name, each
\* left to run (no kill, no fault of upstream or of the storage layer, no
\* page limit) over a feed of changes with change ids of their own
Racers == {"importer1", "importer2"}
RaceFeed == <<RecA, RecLegacy, RecName>>
RaceFeeds == {SubSeq(RaceFeed, 1, n) : n \in 0..Min(MaxLen, Len(RaceFeed))}
RaceInit == BeginOf(Racers, RaceFeeds, {}) /\ opts.max_pages = 0
RaceNext ==
    \E p \in Racers :
        \/ StartRun(p)
        \/ FetchEmpty(p)
        \/ FetchPage(p)
        \/ ChunkQuery(p)
        \/ ChunkInsert(p)
        \/ ChunkInsertRefused(p)
        \/ Commit(p)
        \/ SaveCheckpoint(p)
RaceSpec == RaceInit /\ [][RaceNext]_vars

(***************************************************************************)
(* Properties.                                                             *)
(***************************************************************************)
PersistErrors == {"DatabaseError", "IntegrityError"}
NormalizeErrors == {"TypeError", "ValueError"}
Sleeping == {"sleep60", "sleep5"}

\* no two rows of the table carry the same cveChangeId
UniqueChangeIds(rws) ==
    \A j, h \in 1..Len(rws) : j # h => rws[j].cveChangeId # rws[h].cveChangeId

\* C1: idempotent re-import.  When two consecutive runs over the static feed
\* began at the same offset and both ran to completion (DONE), the second
\* left the table exactly as the first left it (one row per changeId),
\* inserted no row, ended at the offset the first ended at and left the
\* stored checkpoint (offset and total) as the first run left it.
C1_IdempotentReimport ==
    \A k \in 1..(Len(runLog) - 1) :
        (/\ runLog[k].outcome = "done"
         /\ runLog[k + 1].outcome = "done"
         /\ runLog[k].start0 = runLog[k + 1].start0)
        => /\ runLog[k + 1].rows = runLog[k].rows
           /\ UniqueChangeIds(runLog[k + 1].rows)
           /\ runLog[k + 1].cp = runLog[k].cp
           /\ runLog[k + 1].offset = runLog[k].offset
           /\ \A p \in Importers :
                (k + 1 = Len(runLog) /\ pc[p] = "done") => inserted[p] = 0

\* two completed runs from the same offset, the first of which stored at
\* least two rows and advanced the checkpoint
C1_Witness ==
    /\ Len(runLog) >= 2
    /\ runLog[1].outcome = "done"
    /\ runLog[2].outcome = "done"
    /\ runLog[1].start0 = runLog[2].start0
    /\ Len(runLog[2].rows) >= 2
    /\ runLog[2].cp.next_index > runLog[2].start0

\* C2: checkpoint advance law.  In a run that resumes from the stored
\* checkpoint (no --start-index), every save of the checkpoint after a
\* persisted page stores the nextIndex stored before plus the number of raw
\* records of the fetched page, whatever the number of rows inserted.
C2_CheckpointAdvance ==
    [][\A p \in Importers :
          (/\ pc[p] = "checkpointing"
           /\ pc'[p] \in {"fetching", "done"}
           /\ ~start_index[p].given)
          => cp'.next_index = cp.next_index + Len(records[p])]_vars

\* a run without override has saved the checkpoint of a page and the stored
\* offset exceeds the number of rows stored: some record of a persisted page
\* was a duplicate or was skipped
C2_Witness ==
    \E p \in Importers :
        /\ ~start_index[p].given
        /\ pc[p] = "fetching"
        /\ page_count[p] >= 1
        /\ cp.next_index > Len(rows)

\* C3: no checkpoint advance on persistence failure.  When the run has ended
\* with the exception of the persist step, the stored checkpoint (nextIndex
\* and total) is the one stored when the page was fetched.
C3_NoAdvanceOnPersistFailure ==
    \A p \in Importers :
        (pc[p] = "aborted" /\ error[p] \in PersistErrors) => cp = cpBefore[p]

\* the persist step of a page after the first one failed
C3_Witness ==
    \E p \in Importers :
        /\ pc[p] = "aborted"
        /\ error[p] = "DatabaseError"
        /\ cp.next_index > start0[p]

\* C4: changeId uniqueness with skip-not-error.  The persist step never
\* raises on a duplicate cveChangeId, and cveChangeId is unique over the
\* stored rows.
C4_DuplicatesSkippedNotRaised ==
    /\ UniqueChangeIds(rows)
    /\ \A p \in Importers : ~(pc[p] = "aborted" /\ error[p] = "IntegrityError")

\* C5: batch atomicity.  When the persist step of a page has failed, in
\* whichever sub-batch, the table holds exactly the rows it held when the
\* page was fetched: none of the rows the page's earlier sub-batches
\* inserted, and all the rows earlier pages committed.
C5_BatchAtomicity ==
    \A p \in Importers :
        (pc[p] = "aborted" /\ error[p] \in PersistErrors) => rows = rowsBefore[p]

\* a fault in a sub-batch after the first, when an earlier sub-batch of the
\* page had inserted rows and an earlier page had committed rows
C5_Witness ==
    \E p \in Importers :
        /\ pc[p] = "aborted"
        /\ error[p] \in PersistErrors
        /\ faultChunk[p] > 1
        /\ rolledBack[p] > 0
        /\ Len(rows) > 0

\* the total a run detects whose first page is the one at offset o
StaticTotal(o) ==
    LateTotal(DetectTotal(None, Payload(o, opts.page_size)), Payload(o, opts.page_size))

\* the offset at which a run over the static feed ends that is at offset o
\* after n pages, has detected total tot, and is never interrupted
RECURSIVE UninterruptedEnd(_, _, _)
UninterruptedEnd(o, n, tot) ==
    IF opts.max_pages # 0 /\ n >= opts.max_pages THEN o
    ELSE IF Page(o, opts.page_size) = << >> THEN o
    ELSE LET o2 == o + Len(Page(o, opts.page_size))
         IN  IF IsInt(tot) /\ o2 >= tot.v THEN o2
             ELSE UninterruptedEnd(o2, n + 1, tot)

\* the table when run k began
RowsAtStart(k) == IF k = 1 THEN << >> ELSE runLog[k - 1].rows

\* the changeIds an uninterrupted run k would have left in the table
UninterruptedIds(k) ==
    LET s0 == runLog[k].start0
        e == UninterruptedEnd(s0, 0, StaticTotal(s0))
    IN  IdsOf(RowsAtStart(k)) \cup IdsOf(BuildObjs(SubSeq(upstream, s0 + 1, e)))

\* run k lost the checkpoint save of a committed page to a kill, and run
\* k + 1, started without --start-index, is the run in progress or the run
\* that ended last: it re-fetches the page whose save was lost, inserts
\* none of its rows, does not fail on the unique constraint, and when DONE
\* has left the rows and the stored offset an uninterrupted run k leaves
ResumedSafely(k) ==
    \A p \in Importers :
        (runs = k + 1 /\ ~start_index[p].given) =>
            /\ (pc[p] \in InTransaction \cup {"checkpointing"} /\ page_count[p] = 0)
                 => /\ records[p] = Page(runLog[k].offset, opts.page_size)
                    /\ tx[p] = << >>
                    /\ created[p] = 0
            /\ (pc[p] = "aborted" /\ start[p] = runLog[k].cp.next_index)
                 => error[p] # "IntegrityError"
            /\ pc[p] = "done"
                 => /\ cp.next_index =
                          UninterruptedEnd(runLog[k].start0, 0, StaticTotal(runLog[k].start0))
                    /\ IdsOf(rows) = UninterruptedIds(k)
                    /\ UniqueChangeIds(rows)

LostSaves == {k \in 1..Len(runLog) : runLog[k].outcome = "lost_save"}

\* C6 as claimed: crash-resume safety.  Whenever a run was killed after the
\* commit of a page and before the save of its checkpoint, the next run from
\* the stored checkpoint over the same feed re-fetches that page, inserts
\* none of its rows, raises no error, and ends with the rows and the final
\* checkpoint of an uninterrupted run.
C6_CrashResumeAsClaimed ==
    \A k \in LostSaves : ResumedSafely(k)

\* C6 as amended: the same, for a killed run that itself resumed from the
\* stored checkpoint (no --start-index) and for runs without a page limit
\* (--max-pages 0).
C6_CrashResumeSafety ==
    \A k \in LostSaves :
        (~runLog[k].override /\ opts.max_pages = 0) => ResumedSafely(k)

\* a run without page limit and without override lost the save of its second
\* or a later page, and the next run from the stored checkpoint is DONE
C6_Witness ==
    \E k \in LostSaves : \E p \in Importers :
        /\ ~runLog[k].override
        /\ opts.max_pages = 0
        /\ runLog[k].offset > runLog[k].start0
        /\ runs = k + 1
        /\ ~start_index[p].given
        /\ pc[p] = "done"
        /\ Len(rows) >= 2

\* the nextIndex stored when the latest run began
StoredAtStart == IF runs <= 1 THEN 0 ELSE runLog[runs - 1].cp.next_index

\* the latest run has no --start-index below the nextIndex stored when it began
NoLowOverride ==
    \A p \in Importers : start_index[p].given => start0[p] >= StoredAtStart

\* a step that saves the checkpoint after a committed page: the stored
\* nextIndex is the offset the importer goes on from
SavesCheckpoint(p) ==
    /\ pc[p] = "checkpointing"
    /\ pc'[p] \in {"fetching", "done"}
    /\ cp'.next_index = start'[p]

\* the stored nextIndex does not decrease, the checkpoint row is not
\* deleted, the row is written only when it is created and by the save that
\* follows the commit of a page, and that save is made for every committed
\* page whose process is not killed first
NeverRolledBack ==
    /\ cp'.next_index >= cp.next_index
    /\ cp.exists => cp'.exists
    /\ cp' # cp => (~cp.exists \/ \E p \in Importers : SavesCheckpoint(p))
    /\ \A p \in Importers :
         (pc[p] = "checkpointing" /\ pc'[p] \notin {"checkpointing", "killed"})
            => SavesCheckpoint(p)

\* C7 as claimed: the checkpoint is never rolled back.  Over any sequence of
\* runs, with or without --start-index, the stored nextIndex never
\* decreases, the row is never deleted, and it is written exactly once per
\* persisted page.
C7_NeverRolledBackAsClaimed == [][NeverRolledBack]_vars

\* C7 as amended: the same over the runs whose --start-index, when given, is
\* not below the nextIndex stored when the run begins.
C7_CheckpointNeverRolledBack == [][NoLowOverride => NeverRolledBack]_vars

\* a second run, given a --start-index at or above a stored nextIndex that
\* is not 0, has saved the checkpoint of a page
C7_Witness ==
    \E p \in Importers :
        /\ runs >= 2
        /\ start_index[p].given
        /\ StoredAtStart > 0
        /\ start0[p] >= StoredAtStart
        /\ pc[p] = "fetching"
        /\ page_count[p] >= 1

\* C8: fetch failures retry in place.  A fetch that ends in HTTP 429,
\* another error status or a connection failure leaves offset, page count,
\* stored checkpoint and rows as they were and puts the importer to sleep
\* (the run does not end); from the sleep the importer can only return to
\* FETCHING (or be killed), with offset, page size and page count unchanged,
\* so that the page limit still admits the request and the request made
\* next carries the startIndex and resultsPerPage of the failed one.
C8_FetchFailureRetriesInPlace ==
    [][\A p \in Importers :
          LET same == /\ start'[p] = start[p]
                      /\ page_count'[p] = page_count[p]
                      /\ cp' = cp
                      /\ rows' = rows
                      /\ opts' = opts
          IN  /\ (pc[p] = "fetching" /\ pc'[p] \in Sleeping)
                   => /\ same
                      /\ params'[p] = [startIndex |-> start[p],
                                       resultsPerPage |-> opts.page_size]
              /\ (pc[p] \in Sleeping /\ pc'[p] # pc[p])
                   => pc'[p] \in {"fetching", "killed"}
              /\ (pc[p] \in Sleeping /\ pc'[p] = "fetching")
                   => /\ same
                      /\ ~(opts.max_pages # 0 /\ page_count'[p] >= opts.max_pages)
                      /\ params[p] = [startIndex |-> start'[p],
                                      resultsPerPage |-> opts'.page_size]
      ]_vars

\* the importer sleeps after a rate-limited fetch of a page that follows a
\* persisted page
C8_Witness ==
    \E p \in Importers :
        /\ pc[p] \in Sleeping
        /\ http[p] = "429"
        /\ page_count[p] >= 1
        /\ Len(rows) >= 1

\* C9: only persistence failure halts a run.  A run that ended with an
\* exception ended with an exception of the storage layer.
C9_OnlyPersistenceHalts ==
    \A p \in Importers : pc[p] = "aborted" => error[p] \in PersistErrors

\* C10: the normalizer never raises.  No run ends with an exception raised
\* while the records of a page are normalized.
C10_NormalizerNeverRaises ==
    \A p \in Importers : ~(pc[p] = "aborted" /\ error[p] \in NormalizeErrors)

\* a and b are the same value up to the order of the keys of their mappings
RECURSIVE SameContent(_, _)
SameContent(a, b) ==
    CASE a.t = "dict" /\ b.t = "dict" ->
           /\ {a.v[j][1] : j \in 1..Len(a.v)} = {b.v[j][1] : j \in 1..Len(b.v)}
           /\ Len(a.v) = Len(b.v)
           /\ \A j \in 1..Len(a.v) : SameContent(a.v[j][2], Get(b, a.v[j][1]))
      [] a.t = "list" /\ b.t = "list" ->
           /\ Len(a.v) = Len(b.v)
           /\ \A j \in 1..Len(a.v) : SameContent(a.v[j], b.v[j])
      [] OTHER -> a = b

\* rec is a mapping payload that carries no change id of upstream
NoUpstreamChangeId(rec) ==
    /\ IsDict(ChangeOf(rec))
    /\ ~Truthy(Get(ChangeOf(rec), "cveChangeId"))
    /\ ~Truthy(Get(ChangeOf(rec), "id"))

\* the instance built from records[p][j], on a page no record of which was
\* skipped
ObjOf(p, j) == objs[p][j]

\* C11: deterministic changeId derivation.  While a page is persisted, the
\* changeId synthesized for a record without upstream change id is the one
\* synthesized for every record of the feed with the same content in
\* another (or the same) key order, at every depth; and when a row made from
\* such a record is visible, the existence query of the record's sub-batch
\* has found the changeId, and the record is not inserted again.
C11_DeterministicChangeId ==
    \A p \in Importers :
        (pc[p] \in InTransaction /\ Len(objs[p]) = Len(records[p])) =>
            \A j \in 1..Len(records[p]) : \A h \in 1..Len(upstream) :
                (/\ NoUpstreamChangeId(records[p][j])
                 /\ NoUpstreamChangeId(upstream[h])
                 /\ SameContent(ChangeOf(records[p][j]), ChangeOf(upstream[h])))
                => /\ ObjOf(p, j).cveChangeId = Normalize(upstream[h]).obj.cveChangeId
                   /\ (/\ pc[p] = "inserting"
                       /\ j \in (i[p] + 1)..(i[p] + opts.batch_size)
                       /\ \E r \in 1..Len(Visible(p)) :
                            Visible(p)[r].cveChangeId = Normalize(upstream[h]).obj.cveChangeId)
                      => /\ ObjOf(p, j).cveChangeId \in existing[p]
                         /\ \A c \in 1..Len(ToCreate(p)) :
                              ToCreate(p)[c].cveChangeId # ObjOf(p, j).cveChangeId

\* a later page brings, in another key order, a change whose row an earlier
\* page stored under a synthesized changeId, and its sub-batch is about to
\* be inserted: once for the keys of the change, once for the keys of a
\* mapping inside it
C11_Witness ==
    \E p \in Importers :
        /\ pc[p] = "inserting"
        /\ Len(rows) = 1
        /\ \/ upstream = <<PermA, PermB>> /\ records[p] = <<PermB>>
           \/ upstream = <<NestB, NestA>> /\ records[p] = <<NestA>>
        /\ rows[1].cveChangeId = objs[p][1].cveChangeId
        /\ ToCreate(p) = << >>

\* the lines a run writes when it leaves the loop (lines 110, 148, 237)
StopLines ==
    {"Reached max-pages limit, stopping.", "No records found. Stopping.",
     "All records imported."}

\* the total the importer can know at the top of the loop: the one the run
\* has detected, else the one of the checkpoint it loaded
KnownTotal(p) ==
    IF IsInt(total_results[p]) THEN total_results[p] ELSE checkpoint[p].total

\* a step in which the importer sends a request: it leaves the top of the
\* loop otherwise than by the page limit or a kill
SendsRequest(p) ==
    /\ pc[p] = "fetching"
    /\ pc'[p] \notin {"fetching", "killed"}
    /\ ~(pc'[p] = "done" /\ said'[p] = "Reached max-pages limit, stopping.")

\* C12: termination conditions.  At the top of the loop, when the page
\* limit is reached or the offset is at or beyond the known total (the
\* total of the stored checkpoint included), the importer sends no request
\* and goes to DONE; and a run goes to DONE only with the page limit
\* reached, the total reached, or an empty page.
C12_TerminationConditions ==
    [][\A p \in Importers :
          /\ (/\ pc[p] = "fetching"
              /\ \/ MaxPagesReached(p)
                 \/ IsInt(KnownTotal(p)) /\ start[p] >= KnownTotal(p).v)
                => /\ ~SendsRequest(p)
                   /\ pc'[p] \in {"fetching", "done", "killed"}
          /\ (pc[p] # "done" /\ pc'[p] = "done") => said'[p] \in StopLines
      ]_vars

\* x.get(k) when x is a mapping, else nothing
Nested(x, k) == IF IsDict(x) THEN Get(x, k) ELSE None

\* the vulnerabilityId in the order cve.id, cveId, cve.CVE_data_meta.ID, id,
\* name, "unknown": the first that is not empty
ClaimedVulnerabilityId(change) ==
    LET cve == Get(change, "cve")
    IN  Or(Or(Or(Or(Or(Nested(cve, "id"),
                       Get(change, "cveId")),
                    Nested(Nested(cve, "CVE_data_meta"), "ID")),
                 Get(change, "id")),
              Get(change, "name")),
           S("unknown"))

\* C13: vulnerabilityId extraction priority.  The instance built from a
\* mapping-shaped change carries as cveId the first non-empty value in the
\* order cve.id, cveId, cve.CVE_data_meta.ID, id, name, "unknown"; a change
\* with cve.id and a different cveId is stored with cve.id.
C13_VulnerabilityIdPriority ==
    \A p \in Importers :
        (pc[p] \in InTransaction /\ Len(objs[p]) = Len(records[p])) =>
            \A j \in 1..Len(records[p]) :
                ObjOf(p, j).cveId = ClaimedVulnerabilityId(ChangeOf(records[p][j]))

\* C14: 429 is a caller-visible policy.  Whenever upstream answered a
\* request with HTTP 429, handle() was handed the 429 response and took its
\* cooldown branch (the 60 s sleep of lines 118-123): the adapter neither
\* retried the request by itself nor turned the answer into a failure of
\* the request.
C14_RateLimitVisibleToCaller ==
    \A p \in Importers :
        http[p] = "429" => /\ pc[p] = "sleep60"
                           /\ said[p] = "Rate limited (429)."

\* C15: stored total is the last-observed total.  Every save of the
\* checkpoint of a page whose response reported an integer total stores
\* that total, also when upstream reported another total to the pages
\* before.
C15_StoredTotalIsLastObserved ==
    [][\A p \in Importers :
          (SavesCheckpoint(p) /\ IsInt(upTotal)) => cp'.total = upTotal
      ]_vars

\* C16: page limit bound.  With --max-pages N > 0 a run counts at most N
\* pages, and whenever it has sent a request, is persisting a page or is
\* about to save a page's checkpoint, it has counted fewer than N: the page
\* is at most the N-th and no request follows the N-th page.  With
\* --max-pages 0 no run is stopped by the page limit.
C16_PageLimitBound ==
    \A p \in Importers :
        /\ opts.max_pages > 0 =>
              /\ page_count[p] <= opts.max_pages
              /\ pc[p] \in Sleeping \cup InTransaction \cup {"checkpointing"}
                    => page_count[p] < opts.max_pages
        /\ (opts.max_pages = 0 /\ pc[p] = "done")
              => said[p] # "Reached max-pages limit, stopping."

\* a run with --max-pages 2 was stopped by the limit after two pages, with
\* records of the feed left to fetch
C16_Witness ==
    \E p \in Importers :
        /\ opts.max_pages = 2
        /\ pc[p] = "done"
        /\ said[p] = "Reached max-pages limit, stopping."
        /\ start[p] = start0[p] + 2
        /\ start[p] < Len(upstream)

\* C17: eventual termination.  When every request succeeds in the end and
\* the storage layer does not fail, a run that is at the top of its loop
\* reaches DONE, whatever total upstream reports.
C17_EventualTermination ==
    \A p \in Importers : (pc[p] = "fetching") ~> (pc[p] = "done")

\* the offset the claim gives the latest run: the --start-index when one is
\* given, else the nextIndex stored when the run began (0 when the
\* checkpoint name is new)
ClaimedStart(p) ==
    IF start_index[p].given THEN start_index[p].v ELSE StoredAtStart

\* C18: start offset resolution.  As long as a run has saved no page, its
\* offset, and the startIndex of the requests it sends, is the --start-index
\* when one is given (0 included), else the stored nextIndex, 0 for a new
\* checkpoint name; the resultsPerPage is the --page-size.
C18_StartOffsetResolution ==
    \A p \in Importers :
        (pc[p] \notin Ended /\ page_count[p] = 0) =>
            /\ start[p] = ClaimedStart(p)
            /\ params[p] = [startIndex |-> ClaimedStart(p),
                            resultsPerPage |-> opts.page_size]

\* a run given --start-index 0 over a stored nextIndex that is not 0 has
\* fetched its first page
C18_Witness ==
    \E p \in Importers :
        /\ start_index[p] = Given(0)
        /\ StoredAtStart > 0
        /\ pc[p] \in InTransaction
        /\ page_count[p] = 0
        /\ records[p] = Page(0, opts.page_size)

\* line 222: the offset a halted run reports ("DB insert failed at start
\* {start}")
ReportedOffset(p) == start[p]

\* C19: exact resume offset on halt.  When a run has halted on a failure of
\* the persist step, the offset it reported is the stored nextIndex, the
\* offset the next run without --start-index begins at; also when the
\* halted run was given a --start-index and failed on its first page.
C19_ExactResumeOffsetOnHalt ==
    \A p \in Importers :
        (pc[p] = "aborted" /\ error[p] \in PersistErrors) =>
            /\ said[p] = "DB insert failed."
            /\ ReportedOffset(p) = cp.next_index
            /\ ReportedOffset(p) = ResolveStart(NotGiven, LoadCheckpoint)

\* how many records of a page have a mapping as change payload
MappingPayloads(recs) ==
    Cardinality({j \in 1..Len(recs) : IsDict(ChangeOf(recs[j]))})

\* C20: skip only non-mappings.  Of a fetched page, exactly the records
\* whose change payload is a mapping yield an instance, one each, with a
\* cveId and a cveChangeId that are not empty, and these instances are what
\* the persist step is given: as many as the page has mapping payloads when
\* the page is persisted, and a page none of whose records reached the
\* persist step has no mapping payload.
C20_SkipOnlyNonMappings ==
    \A p \in Importers :
        /\ pc[p] \in InTransaction =>
              /\ Len(objs[p]) = MappingPayloads(records[p])
              /\ \A h \in 1..Len(objs[p]) :
                    Truthy(objs[p][h].cveId) /\ Truthy(objs[p][h].cveChangeId)
        /\ (pc[p] = "aborted" /\ error[p] \in NormalizeErrors) =>
              MappingPayloads(Page(start[p], opts.page_size)) = 0

\* the changeId the claim gives a change: its cveChangeId when that is not
\* empty, else the hash of its key-sorted serialization
ClaimedChangeId(change) ==
    IF Truthy(Get(change, "cveChangeId")) THEN Get(change, "cveChangeId")
    ELSE Sha1(JsonDumpsSorted(change))

\* C21: changeId source.  The instance built from a change carries the
\* change's cveChangeId when that is not empty and else the hash of the
\* key-sorted serialization of the change; so it shares its cveChangeId
\* with no record of the feed that has another content and no cveChangeId
\* either.
C21_ChangeIdSource ==
    \A p \in Importers :
        (pc[p] \in InTransaction /\ Len(objs[p]) = Len(records[p])) =>
            \A j \in 1..Len(records[p]) :
                /\ ObjOf(p, j).cveChangeId = ClaimedChangeId(ChangeOf(records[p][j]))
                /\ \A h \in 1..Len(upstream) :
                     (/\ ~Truthy(Get(ChangeOf(records[p][j]), "cveChangeId"))
                      /\ IsDict(ChangeOf(upstream[h]))
                      /\ ~Truthy(Get(ChangeOf(upstream[h]), "cveChangeId"))
                      /\ ~SameContent(ChangeOf(records[p][j]), ChangeOf(upstream[h])))
                     => ObjOf(p, j).cveChangeId # Normalize(upstream[h]).obj.cveChangeId

\* the step in which importer p saves its checkpoint
Saves(p) == pc[p] = "checkpointing" /\ pc'[p] # "checkpointing"

\* the step in which importer p's insert is refused
Refused(p) == pc[p] = "inserting" /\ pc'[p] = "aborted" /\ error'[p] = "IntegrityError"

\* the change ids importer p is about to insert that are committed by now
Collisions(p) == IdsOf(ToCreate(p)) \cap IdsOf(rows)

\* C22: uncoordinated concurrent importers race.  Of two importers on
\* the same checkpoint name: (1) a save stores the saving importer's own
\* offset whatever is stored, and it replaces the stored next_index by a
\* smaller one only when the run overrode its start or when the stored
\* value is larger than the one the importer last loaded or saved, that is,
\* the other importer has stored it meanwhile; (2) an insert is refused by
\* the unique constraint only for a change id that passed the importer's
\* existence check and was committed after the page was fetched, by the
\* other importer (the refused one has committed nothing since), and
\* an importer whose insert holds such an id can only fail
\* with IntegrityError.  Both happen (C22_Witness).
C22_UncoordinatedRace ==
    [][\A p \in Racers :
         /\ Saves(p) =>
              /\ cp'.next_index = start[p] + Len(records[p])
              /\ cp'.next_index < cp.next_index =>
                   \/ start_index[p].given /\ page_count[p] = 0
                   \/ checkpoint[p].next_index < cp.next_index
         /\ Refused(p) =>
              /\ Collisions(p) \ IdsOf(rowsBefore[p]) # {}
              /\ Collisions(p) \cap existing[p] = {}
              /\ Len(rows) > Len(rowsBefore[p])
         /\ (pc[p] = "inserting" /\ Collisions(p) # {} /\ pc'[p] # pc[p]) => Refused(p)]_vars

\* both races in one behaviour: a save has lowered the stored next_index
\* although neither run overrode its start, and one importer has been
\* aborted by the unique constraint on a page the other has committed
C22_Witness ==
    \E p \in Racers : \E q \in Racers \ {p} :
        /\ lowered
        /\ ~start_index[p].given /\ ~start_index[q].given
        /\ pc[p] = "aborted" /\ error[p] = "IntegrityError"
        /\ pc[q] \notin Ended \cup {"idle"}
        /\ inserted[q] > 0
        /\ IdsOf(BuildObjs(extract_records(Payload(start[p], opts.page_size)))) \subseteq IdsOf(rows)

\* the state of race (2): both importers have passed the existence check
\* for the same change id and neither has inserted
BothPassedCheck ==
    \E p \in Racers : \E q \in Racers \ {p} :
        /\ pc[p] = "inserting" /\ pc[q] = "inserting"
        /\ tx[p] = << >> /\ tx[q] = << >>
        /\ IdsOf(ToCreate(p)) \cap IdsOf(ToCreate(q)) # {}

\* the upstream record at offset k is durable: its change payload is no
\* mapping, or the store holds a row with its changeId
Durable(k) ==
    IsDict(ChangeOf(upstream[k + 1])) =>
        ChangeIdOf(ChangeOf(upstream[k + 1])) \in IdsOf(rows)

\* the offsets from the starting offset of importer p's run up to the
\* stored next_index
Covered(p) == {k \in start0[p]..(cp.next_index - 1) : k < Len(upstream)}

\* the run of importer p was not given a --start-index below the next_index
\* stored when it began
NotBelowStored(p) == start_index[p].given => start0[p] >= StoredAtStart

\* C23 as stated: checkpoint never runs ahead of durable data.  In every
\* state, also after a kill, every record of the static feed at an offset
\* from the starting offset of the importer's run up to the stored
\* next_index whose change payload is a mapping has its changeId in the
\* store, whatever offset the run began at.
C23_DurableAsClaimed ==
    \A p \in Importers : pc[p] # "idle" => \A k \in Covered(p) : Durable(k)

\* C23, amended: checkpoint never runs ahead of durable data.  In every
\* state, also after a kill, of a run that was not given a --start-index
\* below the next_index stored when it began, every record of the static
\* feed at an offset from the run's starting offset up to the stored
\* next_index whose change payload is a mapping has its changeId in the
\* store; and every step that changes the stored next_index is taken by an
\* importer whose page's transaction has committed (no transaction is open,
\* every instance of the page is in the store) and leaves every record from
\* that run's starting offset up to the new next_index durable.
C23_CheckpointBehindStore ==
    /\ [](\A p \in Importers :
            (pc[p] # "idle" /\ NotBelowStored(p)) => \A k \in Covered(p) : Durable(k))
    /\ [][cp'.next_index # cp.next_index =>
            \E p \in Importers :
                /\ pc[p] = "checkpointing"
                /\ tx[p] = << >>
                /\ IdsOf(objs[p]) \subseteq IdsOf(rows)
                /\ cp'.next_index = start[p] + Len(records[p])
                /\ \A k \in start0[p]..(cp'.next_index - 1) : Durable(k)]_vars

\* a run that saved the checkpoint of a page with a change and was killed
\* before the transaction of the next page committed: the change at the
\* stored next_index is not in the store, every change below it is
C23_Witness ==
    \E p \in Importers :
        /\ pc[p] = "killed"
        /\ NotBelowStored(p)
        /\ \E k \in Covered(p) : IsDict(ChangeOf(upstream[k + 1]))
        /\ cp.next_index < Len(upstream)
        /\ IsDict(ChangeOf(upstream[cp.next_index + 1]))
        /\ ChangeIdOf(ChangeOf(upstream[cp.next_index + 1])) \notin IdsOf(rows)
=============================================================================
